---- MODULE Spec2Model ----
(***************************************************************************)
(* A model of manage_images.py: the batch "docker save | compressor" and   *)
(* "decompressor | docker load" script.  One process run is modelled from  *)
(* argument parsing to process exit.  Strings the code inspects character  *)
(* by character (image references, file names, paths) are sequences of     *)
(* one-character strings; command lines are sequences of words.            *)
(***************************************************************************)
EXTENDS Integers, Sequences, FiniteSets, TLC

(***************************************************************************)
(* Bounds of the model.                                                    *)
(***************************************************************************)
\* most lines the image lister prints in one run
MaxImages == 2
\* most entries of the input directory of a load run
MaxFiles == 2

(***************************************************************************)
(* Strings.                                                                *)
(***************************************************************************)
\* ".tag.gz", the archive suffix
TagGz == <<".", "t", "a", "g", ".", "g", "z">>

\* one newline-terminated line per image, as the lister prints them
RECURSIVE JoinLines(_)
JoinLines(ls) ==
    IF ls = <<>> THEN <<>> ELSE Head(ls) \o <<"\n">> \o JoinLines(Tail(ls))

Whitespace == {"\n", " "}

\* str.strip(): leading and trailing whitespace removed
RECURSIVE StripLeft(_)
StripLeft(s) ==
    IF s # <<>> /\ Head(s) \in Whitespace THEN StripLeft(Tail(s)) ELSE s

RECURSIVE StripRight(_)
StripRight(s) ==
    IF s # <<>> /\ s[Len(s)] \in Whitespace
    THEN StripRight(SubSeq(s, 1, Len(s) - 1))
    ELSE s

Strip(s) == StripRight(StripLeft(s))

\* str.split(sep) for a one-character sep: always at least one piece
RECURSIVE SplitAcc(_, _, _)
SplitAcc(s, sep, cur) ==
    IF s = <<>> THEN <<cur>>
    ELSE IF Head(s) = sep THEN <<cur>> \o SplitAcc(Tail(s), sep, <<>>)
    ELSE SplitAcc(Tail(s), sep, Append(cur, Head(s)))

Split(s, sep) == SplitAcc(s, sep, <<>>)

\* str.endswith(suffix)
EndsWith(s, suffix) ==
    /\ Len(suffix) <= Len(s)
    /\ SubSeq(s, Len(s) - Len(suffix) + 1, Len(s)) = suffix

\* str.replace(old, new) for one-character old and new: every occurrence
StrReplace(s, old, new) ==
    [i \in 1..Len(s) |-> IF s[i] = old THEN new ELSE s[i]]

\* os.path.join(dir, name) for a relative name
PathJoin(dir, name) ==
    IF dir = <<>> THEN name
    ELSE IF dir[Len(dir)] = "/" THEN dir \o name
    ELSE dir \o <<"/">> \o name

(***************************************************************************)
(* Inputs of a run.                                                        *)
(***************************************************************************)
\* repositories the image engine may hold: plain, with '-', with a
\* registry port
Repos == { <<"a", "/", "b">>, <<"a", "-", "b">>, <<"a", ":", "1", "/", "b">> }

\* tags: no '/' and no ':' in a tag
Tags == { <<"1">>, <<"1", "1">> }

\* "{{.Repository}}:{{.Tag}}"
Ref(repo, tag) == repo \o <<":">> \o tag

Refs == { Ref(repo, tag) : repo \in Repos, tag \in Tags }

\* sequences over S of length at most n
SeqsUpTo(S, n) == UNION { [1..k -> S] : k \in 0..n }

\* names a directory given to load may hold
DirNames ==
    { <<"a", "_", "1">> \o TagGz, <<"b", "_", "1">> \o TagGz,
      <<"c", "_", "1">> \o TagGz, <<"n", ".", "t", "x", "t">>, TagGz }

\* --out-dir of the save runs, --in-dir (its default) of the load runs
OutDir == <<"o">>
InDir == <<".">>

NoTag == <<>>

\* command lines: nothing, an unknown subcommand, save without --tag,
\* save --tag T --out-dir D, load
Argvs ==
    { [sub |-> "", tag |-> NoTag, dir |-> <<".">>],
      [sub |-> "bogus", tag |-> NoTag, dir |-> <<".">>],
      [sub |-> "save", tag |-> NoTag, dir |-> <<".">>] }
    \cup { [sub |-> "save", tag |-> t, dir |-> OutDir] : t \in Tags }
    \cup { [sub |-> "load", tag |-> NoTag, dir |-> InDir] }

Executables == { "docker", "pigz", "gzip", "gunzip" }

\* what one pipeline run can do: exit status of the producer and of the
\* consumer, and the text both wrote to standard error
Outcomes ==
    [prc : {0, 1}, crc : {0, 1}, stderr : { <<>>, <<"E", "\n">> }]

VARIABLES
    pc,            \* where the process is
    argv,          \* the command line
    onPath,        \* executables shutil.which finds
    compressor,    \* words of the chosen compress command
    decompressor,  \* words of the chosen decompress command
    selections,    \* calls of find_compressor so far
    pigzFound,     \* what find_compressor's probe found: "yes", "no"
    listed,        \* the lines "docker images" printed
    listRc,        \* exit status of "docker images", -1 before the call
    dirEntries,    \* names in the input directory of load
    all_images,    \* save_images: all_images
    batch,         \* images_to_save / image_files
    idx,           \* position of the loop in batch
    inflight,      \* pipelines started and not yet waited for
    runs,          \* pipelines completed, in order
    log,           \* per-item ERROR records, in order
    dirsMade,      \* directories os.makedirs was called for
    files,         \* archive files written: <<path, image>> pairs
    exitCode       \* process exit status, -1 while running

vars == << pc, argv, onPath, compressor, decompressor, selections,
           pigzFound, listed, listRc, dirEntries, all_images, batch, idx, inflight, runs, log,
           dirsMade, files, exitCode >>

Init ==
    /\ pc = "parse"
    /\ argv \in Argvs
    /\ onPath \in SUBSET Executables
    /\ compressor = <<>>
    /\ decompressor = <<>>
    /\ selections = 0
    /\ pigzFound = "unprobed"
    /\ listed = <<>>
    /\ listRc = -1
    /\ dirEntries = {}
    /\ all_images = <<>>
    /\ batch = <<>>
    /\ idx = 1
    /\ inflight = {}
    /\ runs = <<>>
    /\ log = <<>>
    /\ dirsMade = {}
    /\ files = {}
    /\ exitCode = -1

\* sys.exit(code), or main returning (code 0)
Exit(code) ==
    /\ pc' = "exited"
    /\ exitCode' = code

(***************************************************************************)
(* main: argument parsing.                                                 *)
(***************************************************************************)
\* what parser.parse_args() accepts: a subcommand is required, it is save
\* or load, and save requires --tag
ArgsOk(a) ==
    /\ a.sub \in {"save", "load"}
    /\ a.sub = "save" => a.tag # NoTag

\* the status argparse's parser.error() exits with
ArgparseErrorStatus == 2

ParseArgs ==
    /\ pc = "parse"
    /\ IF ArgsOk(argv)
       THEN /\ pc' = "check_docker"
            /\ UNCHANGED exitCode
       ELSE Exit(ArgparseErrorStatus)
    /\ UNCHANGED << argv, onPath, compressor, decompressor, selections,
                    pigzFound,
                    listed, listRc, dirEntries, all_images, batch, idx,
                    inflight, runs, log, dirsMade, files >>

(***************************************************************************)
(* check_dependencies and find_compressor.                                 *)
(***************************************************************************)
\* a check that finds every tool
MissingNone(tools) == {}

\* check_dependencies: the tools shutil.which does not find
Missing(tools) == { t \in tools : t \notin onPath }

\* main: check_dependencies(["docker"])
CheckDocker ==
    /\ pc = "check_docker"
    /\ IF Missing({"docker"}) # {}
       THEN Exit(1)
       ELSE /\ pc' = "find_compressor"
            /\ UNCHANGED exitCode
    /\ UNCHANGED << argv, onPath, compressor, decompressor, selections,
                    pigzFound,
                    listed, listRc, dirEntries, all_images, batch, idx,
                    inflight, runs, log, dirsMade, files >>

\* find_compressor's return value: (compress words, decompress words)
CompressorPair ==
    IF "pigz" \in onPath
    THEN << <<"pigz">>, <<"pigz", "-dc">> >>
    ELSE << <<"gzip">>, <<"gunzip", "-c">> >>

FindCompressor ==
    /\ pc = "find_compressor"
    /\ compressor' = CompressorPair[1]
    /\ decompressor' = CompressorPair[2]
    /\ selections' = selections + 1
    /\ pigzFound' = IF "pigz" \in onPath THEN "yes" ELSE "no"
    /\ pc' = "check_compressor"
    /\ UNCHANGED << argv, onPath, listed, listRc, dirEntries, all_images,
                    batch, idx, inflight, runs, log, dirsMade, files,
                    exitCode >>

\* main: check_dependencies([compressor.split()[0]]) on save,
\* check_dependencies([decompressor.split()[0]]) on load
CheckCompressor ==
    /\ pc = "check_compressor"
    /\ LET tool == IF argv.sub = "save" THEN Head(compressor)
                   ELSE Head(decompressor)
       IN IF Missing({tool}) # {}
          THEN Exit(1)
          ELSE /\ pc' = IF argv.sub = "save" THEN "list" ELSE "glob"
               /\ UNCHANGED exitCode
    /\ UNCHANGED << argv, onPath, compressor, decompressor, selections,
                    pigzFound,
                    listed, listRc, dirEntries, all_images, batch, idx,
                    inflight, runs, log, dirsMade, files >>

(***************************************************************************)
(* Pipelines.                                                              *)
(***************************************************************************)
\* the status of sh -c "producer | consumer": that of the last stage
ShellStatus(o) == o.crc

\* subprocess.run(..., check=True) raises CalledProcessError
Raises(o) == ShellStatus(o) # 0

\* the except branch: the failure line naming the item, then, if any text
\* was captured on standard error, that text stripped
ErrorRecords(kind, item, o) ==
    << [kind |-> kind, text |-> item] >>
    \o (IF o.stderr # <<>>
        THEN << [kind |-> "cmd_error", text |-> Strip(o.stderr)] >>
        ELSE << >>)

\* the log after one pipeline returned
LogAfter(kind, item, o) ==
    IF Raises(o) THEN log \o ErrorRecords(kind, item, o) ELSE log

(***************************************************************************)
(* save_images.                                                            *)
(***************************************************************************)
\* a failed listing taken for an empty one: return instead of sys.exit(1)
ListImagesFailReturns ==
    /\ pc = "list"
    /\ listRc' = 1
    /\ Exit(0)
    /\ UNCHANGED << argv, onPath, compressor, decompressor, selections,
                    pigzFound, listed, dirEntries, all_images, batch, idx,
                    inflight, runs, log, dirsMade, files >>

\* "docker images" exits non-zero: CalledProcessError, sys.exit(1)
ListImagesFail ==
    /\ pc = "list"
    /\ listRc' = 1
    /\ Exit(1)
    /\ UNCHANGED << argv, onPath, compressor, decompressor, selections,
                    pigzFound,
                    listed, dirEntries, all_images, batch, idx, inflight,
                    runs, log, dirsMade, files >>

\* "docker images" prints its lines: result.stdout.strip().split('\n')
ListImagesOk ==
    /\ pc = "list"
    /\ \E lines \in SeqsUpTo(Refs, MaxImages) :
          /\ listed' = lines
          /\ all_images' = Split(Strip(JoinLines(lines)), "\n")
    /\ listRc' = 0
    /\ pc' = "filter"
    /\ UNCHANGED << argv, onPath, compressor, decompressor, selections,
                    pigzFound,
                    dirEntries, batch, idx, inflight, runs, log, dirsMade,
                    files, exitCode >>

\* a filter on the tag alone, without the ':' before it
HasTagNoColon(img, tag) == EndsWith(img, tag)

\* img.endswith(f":{tag}")
HasTag(img, tag) == EndsWith(img, <<":">> \o tag)

\* [img for img in all_images if img.endswith(f":{tag}")]
ImagesToSave(images, tag) ==
    LET Keep(img) == HasTag(img, tag) IN SelectSeq(images, Keep)

\* an empty filter result taken for a fatal error
FilterImagesEmptyIsError ==
    /\ pc = "filter"
    /\ batch' = ImagesToSave(all_images, argv.tag)
    /\ IF batch' = <<>>
       THEN /\ Exit(1)
            /\ UNCHANGED dirsMade
       ELSE /\ dirsMade' = dirsMade \cup {argv.dir}
            /\ pc' = "save_loop"
            /\ UNCHANGED exitCode
    /\ UNCHANGED << argv, onPath, compressor, decompressor, selections,
                    pigzFound, listed, listRc, dirEntries, all_images, idx,
                    inflight, runs, log, files >>

\* the filter, the early return on an empty list, os.makedirs
FilterImages ==
    /\ pc = "filter"
    /\ batch' = ImagesToSave(all_images, argv.tag)
    /\ IF batch' = <<>>
       THEN /\ Exit(0)
            /\ UNCHANGED dirsMade
       ELSE /\ dirsMade' = dirsMade \cup {argv.dir}
            /\ pc' = "save_loop"
            /\ UNCHANGED exitCode
    /\ UNCHANGED << argv, onPath, compressor, decompressor, selections,
                    pigzFound,
                    listed, listRc, dirEntries, all_images, idx, inflight,
                    runs, log, files >>

\* a sanitization that forgets the ':'
SafeNameSlashOnly(image_name) == StrReplace(image_name, "/", "-")

\* image_name.replace("/", "-").replace(":", "_")
SafeName(image_name) ==
    StrReplace(StrReplace(image_name, "/", "-"), ":", "_")

\* f"{safe_name}.tag.gz"
ArchiveName(image_name) == SafeName(image_name) \o TagGz

\* os.path.join(output_dir, f"{safe_name}.tag.gz")
OutputFilename(output_dir, image_name) ==
    PathJoin(output_dir, ArchiveName(image_name))

\* a compressor probed again for each item
SaveCompressorReprobed == CompressorPair[1]

\* the compressor words put into the command of one item
SaveCompressor == compressor

\* the shell's "> output_filename": the file now holds this pipeline's output
Redirect(fs, path, image) ==
    { f \in fs : f[1] # path } \cup { <<path, image>> }

\* a pipeline started and not waited for: the loop goes on at once
SaveStartNoWait ==
    /\ pc = "save_loop"
    /\ idx <= Len(batch)
    /\ LET image_name == batch[idx]
           out == OutputFilename(argv.dir, image_name)
       IN /\ inflight' = inflight \cup
                 { [k |-> idx, item |-> image_name, cmd |-> SaveCompressor,
                    name |-> ArchiveName(image_name), out |-> out] }
          /\ files' = Redirect(files, out, image_name)
    /\ idx' = idx + 1
    /\ UNCHANGED << pc, argv, onPath, compressor, decompressor, selections,
                    pigzFound, listed, listRc, dirEntries, all_images,
                    batch, runs, log, dirsMade, exitCode >>

\* one loop iteration up to the start of the pipeline
\* "docker save image | compressor > output_filename"
SaveStart ==
    /\ pc = "save_loop"
    /\ idx <= Len(batch)
    /\ LET image_name == batch[idx]
           out == OutputFilename(argv.dir, image_name)
       IN /\ inflight' = inflight \cup
                 { [k |-> idx, item |-> image_name, cmd |-> SaveCompressor,
                    name |-> ArchiveName(image_name), out |-> out] }
          /\ files' = Redirect(files, out, image_name)
    /\ pc' = "save_wait"
    /\ UNCHANGED << argv, onPath, compressor, decompressor, selections,
                    pigzFound,
                    listed, listRc, dirEntries, all_images, batch, idx,
                    runs, log, dirsMade, exitCode >>

\* a completed pipeline: what was started, and how it ended
RunRecord(p, o) ==
    [k |-> p.k, item |-> p.item, cmd |-> p.cmd, name |-> p.name,
     out |-> p.out, prc |-> o.prc, crc |-> o.crc, stderr |-> o.stderr]

\* a loop whose failed pipeline ends the process: no except branch
SaveFinishAbort ==
    /\ pc = "save_wait"
    /\ \E p \in inflight, o \in Outcomes :
          /\ inflight' = inflight \ {p}
          /\ runs' = Append(runs, RunRecord(p, o))
          /\ log' = LogAfter("save_failed", p.item, o)
          /\ IF Raises(o)
             THEN /\ Exit(1)
                  /\ UNCHANGED idx
             ELSE /\ idx' = idx + 1
                  /\ pc' = "save_loop"
                  /\ UNCHANGED exitCode
    /\ UNCHANGED << argv, onPath, compressor, decompressor, selections,
                    pigzFound, listed, listRc, dirEntries, all_images,
                    batch, dirsMade, files >>

\* subprocess.run returns or raises; the except branch logs; next item
SaveFinish ==
    /\ pc = "save_wait"
    /\ \E p \in inflight, o \in Outcomes :
          /\ inflight' = inflight \ {p}
          /\ runs' = Append(runs, RunRecord(p, o))
          /\ log' = LogAfter("save_failed", p.item, o)
    /\ idx' = idx + 1
    /\ pc' = "save_loop"
    /\ UNCHANGED << argv, onPath, compressor, decompressor, selections,
                    pigzFound,
                    listed, listRc, dirEntries, all_images, batch, dirsMade,
                    files, exitCode >>

\* the loop is over: save_images returns, main returns
SaveDone ==
    /\ pc = "save_loop"
    /\ idx > Len(batch)
    /\ Exit(0)
    /\ UNCHANGED << argv, onPath, compressor, decompressor, selections,
                    pigzFound,
                    listed, listRc, dirEntries, all_images, batch, idx,
                    inflight, runs, log, dirsMade, files >>

(***************************************************************************)
(* load_images.                                                            *)
(***************************************************************************)
\* fnmatch of "*.tag.gz" as glob applies it: '*' matches no leading '.'
MatchesPattern(name) ==
    /\ EndsWith(name, TagGz)
    /\ Head(name) # "."

\* the sequences that list every element of S once
Orderings(S) ==
    { q \in [1..Cardinality(S) -> S] : \A x \in S : \E i \in DOMAIN q : q[i] = x }

\* glob.glob(os.path.join(input_dir, "*.tag.gz")): the matching entries,
\* each joined to the directory, in the order the file system gives
GlobResults(input_dir, entries) ==
    Orderings({ PathJoin(input_dir, n) : n \in { e \in entries : MatchesPattern(e) } })

\* the glob and the early return on an empty list
GlobFiles ==
    /\ pc = "glob"
    /\ \E entries \in SUBSET DirNames :
          /\ Cardinality(entries) <= MaxFiles
          /\ dirEntries' = entries
          /\ batch' \in GlobResults(argv.dir, entries)
    /\ IF batch' = <<>>
       THEN Exit(0)
       ELSE /\ pc' = "load_loop"
            /\ UNCHANGED exitCode
    /\ UNCHANGED << argv, onPath, compressor, decompressor, selections,
                    pigzFound,
                    listed, listRc, all_images, idx, inflight, runs, log,
                    dirsMade, files >>

\* the decompressor words put into the command of one item
LoadDecompressor == decompressor

\* one loop iteration up to the start of the pipeline
\* "decompressor image_file | docker load"
LoadStart ==
    /\ pc = "load_loop"
    /\ idx <= Len(batch)
    /\ inflight' = inflight \cup
           { [k |-> idx, item |-> batch[idx], cmd |-> LoadDecompressor,
              name |-> <<>>, out |-> <<>>] }
    /\ pc' = "load_wait"
    /\ UNCHANGED << argv, onPath, compressor, decompressor, selections,
                    pigzFound,
                    listed, listRc, dirEntries, all_images, batch, idx,
                    runs, log, dirsMade, files, exitCode >>

\* subprocess.run returns or raises; the except branch logs; next item
LoadFinish ==
    /\ pc = "load_wait"
    /\ \E p \in inflight, o \in Outcomes :
          /\ inflight' = inflight \ {p}
          /\ runs' = Append(runs, RunRecord(p, o))
          /\ log' = LogAfter("load_failed", p.item, o)
    /\ idx' = idx + 1
    /\ pc' = "load_loop"
    /\ UNCHANGED << argv, onPath, compressor, decompressor, selections,
                    pigzFound,
                    listed, listRc, dirEntries, all_images, batch, dirsMade,
                    files, exitCode >>

\* the loop is over: load_images returns, main returns
LoadDone ==
    /\ pc = "load_loop"
    /\ idx > Len(batch)
    /\ Exit(0)
    /\ UNCHANGED << argv, onPath, compressor, decompressor, selections,
                    pigzFound,
                    listed, listRc, dirEntries, all_images, batch, idx,
                    inflight, runs, log, dirsMade, files >>

(***************************************************************************)
(* The process.                                                            *)
(***************************************************************************)
Next ==
    \/ ParseArgs
    \/ CheckDocker
    \/ FindCompressor
    \/ CheckCompressor
    \/ ListImagesFail
    \/ ListImagesOk
    \/ FilterImages
    \/ SaveStart
    \/ SaveFinish
    \/ SaveDone
    \/ GlobFiles
    \/ LoadStart
    \/ LoadFinish
    \/ LoadDone

Spec == Init /\ [][Next]_vars

\* the environment: pigz is installed or removed while the process runs
PathChange ==
    /\ pc # "exited"
    /\ onPath' = IF "pigz" \in onPath THEN onPath \ {"pigz"}
                 ELSE onPath \cup {"pigz"}
    /\ UNCHANGED << pc, argv, compressor, decompressor, selections,
                    pigzFound, listed, listRc, dirEntries, all_images,
                    batch, idx, inflight, runs, log, dirsMade, files,
                    exitCode >>

NextEnv ==
    \/ Next
    \/ PathChange

\* the process in an environment whose search path changes under it
SpecEnv == Init /\ [][NextEnv]_vars

(***************************************************************************)
(* Notions the properties are stated in.                                   *)
(***************************************************************************)
\* the items of the completed pipelines, in order
Processed == [i \in 1..Len(runs) |-> runs[i].item]

\* pipelines started so far, completed or not
Started == { runs[i] : i \in 1..Len(runs) } \cup inflight

\* "reference r ends in ':T'", character by character
EndsInTag(r, T) ==
    /\ Len(r) > Len(T)
    /\ r[Len(r) - Len(T)] = ":"
    /\ \A j \in 1..Len(T) : r[Len(r) - Len(T) + j] = T[j]

\* the positions of the lister's output whose reference ends in ':T'
TaggedIndices == { i \in 1..Len(listed) : EndsInTag(listed[i], argv.tag) }

\* the n-th of them, in the lister's order
NthTagged(n) ==
    CHOOSE k \in TaggedIndices :
        Cardinality({ j \in TaggedIndices : j <= k }) = n

\* an image reference repo:tag splits at its last ':'
LastColon(r) ==
    CHOOSE i \in 1..Len(r) : r[i] = ":" /\ \A j \in (i + 1)..Len(r) : r[j] # ":"

RepoOf(r) == SubSeq(r, 1, LastColon(r) - 1)

TagOf(r) == SubSeq(r, LastColon(r) + 1, Len(r))

\* the executable the selected compressor (save) or decompressor (load)
\* of this run needs, with the search path as it is
SelectedTool ==
    IF "pigz" \in onPath THEN "pigz"
    ELSE IF argv.sub = "save" THEN "gzip" ELSE "gunzip"

\* a fatal precondition failure of a run with a well-formed command line
GateFails ==
    /\ ArgsOk(argv)
    /\ \/ "docker" \notin onPath
       \/ SelectedTool \notin onPath
       \/ listRc = 1

\* no pipeline run, no directory made, no archive written
NoWork ==
    /\ runs = <<>>
    /\ inflight = {}
    /\ dirsMade = {}
    /\ files = {}

\* the failure line of an item, by the kind of run
FailedKind == IF argv.sub = "save" THEN "save_failed" ELSE "load_failed"

(***************************************************************************)
(* Properties.                                                             *)
(***************************************************************************)
\* C1: save processes exactly the listed references that end in ':T', each
\* occurrence once, in the lister's order: while the loop runs the processed
\* sequence is a prefix of them, and a run that ends normally has processed
\* them all.
C1_SaveProcessesTagged ==
    argv.sub = "save" =>
        /\ Len(Processed) <= Cardinality(TaggedIndices)
        /\ \A n \in 1..Len(Processed) : Processed[n] = listed[NthTagged(n)]
        /\ (pc = "exited" /\ exitCode = 0) =>
               Len(Processed) = Cardinality(TaggedIndices)

\* a save run that skipped the first listed reference and processed the
\* second
C1_Witness ==
    /\ pc = "exited"
    /\ argv.sub = "save"
    /\ Len(listed) = 2
    /\ ~EndsInTag(listed[1], argv.tag)
    /\ Processed = << listed[2] >>

\* C2: once a batch is entered, the run ends only after every item of the
\* batch had its pipeline run, in order, whatever pipelines failed, and it
\* ends with exit code 0.
C2_BatchRunsToTheEnd ==
    (pc = "exited" /\ batch # <<>>) =>
        /\ Len(runs) = Len(batch)
        /\ \A i \in 1..Len(runs) : runs[i].k = i /\ runs[i].item = batch[i]
        /\ exitCode = 0

\* a run of two items whose first pipeline failed
C2_Witness ==
    /\ pc = "exited"
    /\ Len(batch) = 2
    /\ Len(runs) = 2
    /\ Raises(runs[1])

\* C3: every completed pipeline with a failed stage (producer or consumer
\* exited non-zero) has a failure record in the log that names its item,
\* followed by the captured standard-error text if there was any.
C3_StageFailureLogged ==
    \A n \in 1..Len(runs) :
        (runs[n].prc # 0 \/ runs[n].crc # 0) =>
            \E i \in 1..Len(log) :
                /\ log[i] = [kind |-> FailedKind, text |-> runs[n].item]
                /\ runs[n].stderr # <<>> =>
                       /\ i < Len(log)
                       /\ log[i + 1] = [kind |-> "cmd_error",
                                        text |-> Strip(runs[n].stderr)]

\* C4 as stated: the archive name is replace(repo, "/", "-") + "_" + tag +
\* ".tag.gz", only '/' of the repository being rewritten.
C4_NameOnlySlashRewritten ==
    argv.sub = "save" =>
        \A p \in Started :
            p.name = StrReplace(RepoOf(p.item), "/", "-") \o <<"_">>
                        \o TagOf(p.item) \o TagGz

\* C4, amended: in the repository every '/' becomes '-' and every ':'
\* becomes '_'; the archive name is that, "_", the tag and ".tag.gz", and
\* the file written is that name in the output directory.
C4_ArchiveName ==
    argv.sub = "save" =>
        \A p \in Started :
            /\ p.name = StrReplace(StrReplace(RepoOf(p.item), "/", "-"),
                                   ":", "_")
                           \o <<"_">> \o TagOf(p.item) \o TagGz
            /\ p.out = argv.dir \o <<"/">> \o p.name
            /\ \E f \in files : f[1] = p.out

\* a pipeline was run for a reference whose repository holds a ':' and a '/'
C4_Witness ==
    /\ argv.sub = "save"
    /\ \E n \in 1..Len(runs) :
          /\ \E i \in 1..Len(RepoOf(runs[n].item)) :
                RepoOf(runs[n].item)[i] = ":"
          /\ \E i \in 1..Len(RepoOf(runs[n].item)) :
                RepoOf(runs[n].item)[i] = "/"

\* C5: two pipelines of one save run for different image references write
\* to different archive paths, and the archive of every completed pipeline
\* still holds that pipeline's image.
C5_DistinctOutputs ==
    argv.sub = "save" =>
        /\ \A p, q \in Started : p.item # q.item => p.out # q.out
        /\ \A n \in 1..Len(runs) : <<runs[n].out, runs[n].item>> \in files

\* C6: in a run with a well-formed command line, if the image engine or the
\* selected compressor's executable is not on the search path, or the image
\* listing failed, then no pipeline was started, no directory made and no
\* archive written, and the process exits with a non-zero status.
C6_FatalGate ==
    GateFails =>
        /\ NoWork
        /\ pc = "exited" => exitCode \notin {0, -1}
        /\ pc \in {"parse", "check_docker", "find_compressor",
                   "check_compressor", "list", "exited"}

\* a save run that found the image engine and neither pigz nor gzip
C6_Witness ==
    /\ pc = "exited"
    /\ argv.sub = "save"
    /\ ArgsOk(argv)
    /\ "docker" \in onPath
    /\ "pigz" \notin onPath
    /\ "gzip" \notin onPath
    /\ exitCode = 1

\* C7 as stated: the exit code is 1 when an executable is missing, when the
\* listing fails, and when the command line is malformed.
C7_ExitCodeOneAlways ==
    (pc = "exited" /\ (~ArgsOk(argv) \/ GateFails)) => exitCode = 1

\* C7, amended: a malformed command line exits with code 2; with a
\* well-formed one, a missing executable or a failed listing exits with 1.
C7_ExitCodes ==
    pc = "exited" =>
        /\ ~ArgsOk(argv) => exitCode = 2
        /\ GateFails => exitCode = 1

\* a save without --tag has exited
C7_Witness ==
    /\ pc = "exited"
    /\ argv.sub = "save"
    /\ argv.tag = NoTag
    /\ exitCode = 2

\* C8: find_compressor is called at most once, and every pipeline of the
\* run uses the pair its probe selected: pigz / pigz -dc if it found pigz,
\* gzip / gunzip -c if not, whatever the search path became afterwards.
C8_OnePairPerRun ==
    /\ selections <= 1
    /\ Started # {} => selections = 1
    /\ \A p \in Started :
          /\ pigzFound \in {"yes", "no"}
          /\ pigzFound = "yes" =>
                p.cmd = IF argv.sub = "save" THEN <<"pigz">>
                        ELSE <<"pigz", "-dc">>
          /\ pigzFound = "no" =>
                p.cmd = IF argv.sub = "save" THEN <<"gzip">>
                        ELSE <<"gunzip", "-c">>
    /\ \A p, q \in Started : p.cmd = q.cmd

\* the second pipeline of a run is in flight and pigz, found by the probe,
\* is no longer on the search path
C8_Witness ==
    /\ Len(runs) = 1
    /\ inflight # {}
    /\ pigzFound = "yes"
    /\ "pigz" \notin onPath

\* C9: a save whose listing succeeded with no reference ending in ':T', and
\* a load whose directory holds no name ending in ".tag.gz", run no
\* pipeline, write no archive and exit with code 0.
C9_EmptyBatch ==
    (pc = "exited" /\ ArgsOk(argv) /\ ~GateFails) =>
        /\ (argv.sub = "save" /\ TaggedIndices = {}) =>
               runs = <<>> /\ files = {} /\ exitCode = 0
        /\ (argv.sub = "load"
              /\ \A e \in dirEntries : ~EndsWith(e, TagGz)) =>
               runs = <<>> /\ exitCode = 0

\* a save whose lister printed nothing has exited
C9_Witness ==
    /\ pc = "exited"
    /\ argv.sub = "save"
    /\ listRc = 0
    /\ listed = <<>>
    /\ all_images = << <<>> >>
    /\ exitCode = 0

\* C10: at most one pipeline is in flight, and the pipeline of item k is in
\* flight only when the pipelines of items 1..k-1 have completed, in order.
C10_Sequential ==
    /\ Cardinality(inflight) <= 1
    /\ \A i \in 1..Len(runs) : runs[i].k = i
    /\ \A p \in inflight : p.k = Len(runs) + 1

\* the second pipeline is in flight after the first one failed
C10_Witness ==
    /\ inflight # {}
    /\ Len(runs) = 1
    /\ Raises(runs[1])
====
